---------------------------- MODULE Spec2Model ----------------------------
(***************************************************************************)
(* Model of workout_app.py: the schedule resolver, the completion          *)
(* calculator, the history extractor with parse_actual, the two            *)
(* ttl-memoized functions, and the workout -> rest -> done session.        *)
(*                                                                         *)
(* A Python str is a sequence of one-character strings, so that substring  *)
(* tests, indexing, splitting and int() are computed, not assumed.         *)
(* A Python list is a sequence; Python index i is TLA+ index i + 1.        *)
(* None is the empty tuple and a present value x is <<x>>.                 *)
(***************************************************************************)
EXTENDS Integers, Sequences, FiniteSets, TLC

VARIABLES
    all_data,      \* the snapshot set handed to the three derivations
    next_workout,  \* result of find_next_workout_and_exercises
    completion,    \* result of calculate_overall_completion
    df_history,    \* result of load_and_process_history
    pc,            \* position in the current script run
    lastOp,        \* the operation that produced the current state
    value_str,     \* argument of parse_actual
    metric,        \* result of parse_actual
    now,           \* time.time(), in units of 1 / UnitsPerSecond seconds
    store,         \* the spreadsheet: every worksheet, as update_cell left it
    snapCache,     \* the memo entry of get_workout_data
    histCache,     \* the memo entry of load_and_process_history
    sheet_title,             \* st.session_state.sheet_title
    exercises_today,         \* st.session_state.exercises_today
    current_exercise_index,  \* st.session_state.current_exercise_index
    current_view,            \* st.session_state.current_view
    rest_start_time,         \* st.session_state.rest_start_time
    rest_duration,           \* st.session_state.rest_duration, in seconds
    writes         \* the update_cell calls issued since the session began

deriveVars == <<all_data, next_workout, completion, df_history>>
parseVars == <<value_str, metric>>
cacheVars == <<now, store, snapCache, histCache>>
sessionVars == <<sheet_title, exercises_today, current_exercise_index,
                 current_view, rest_start_time, rest_duration, writes>>
appVars == <<cacheVars, sessionVars>>

vars == <<deriveVars, pc, lastOp, parseVars, cacheVars, sessionVars>>

NoEntry == [present |-> FALSE]

\* no script run has touched the memo entries or the session state
AppIdle ==
    /\ now = 0
    /\ store = <<>>
    /\ snapCache = NoEntry
    /\ histCache = NoEntry
    /\ sheet_title = <<>>
    /\ exercises_today = <<>>
    /\ current_exercise_index = 0
    /\ current_view = "none"
    /\ rest_start_time = 0
    /\ rest_duration = 0
    /\ writes = <<>>

None == <<>>
Some(x) == <<x>>

-----------------------------------------------------------------------------
(* Strings *)

Digits == {"0", "1", "2", "3", "4", "5", "6", "7", "8", "9"}

DigitVal(ch) ==
    CASE ch = "0" -> 0 [] ch = "1" -> 1 [] ch = "2" -> 2 [] ch = "3" -> 3
      [] ch = "4" -> 4 [] ch = "5" -> 5 [] ch = "6" -> 6 [] ch = "7" -> 7
      [] ch = "8" -> 8 [] ch = "9" -> 9

\* str.isdigit(): non-empty and every character a digit
IsDigitStr(s) == Len(s) > 0 /\ \A i \in 1..Len(s) : s[i] \in Digits

\* int(s) for a string of digits
RECURSIVE ToInt(_)
ToInt(s) ==
    IF Len(s) = 0 THEN 0
    ELSE 10 * ToInt(SubSeq(s, 1, Len(s) - 1)) + DigitVal(s[Len(s)])

\* sub in s
Contains(s, sub) ==
    \E i \in 0..(Len(s) - Len(sub)) : SubSeq(s, i + 1, i + Len(sub)) = sub

LowerChar(ch) ==
    CASE ch = "S" -> "s" [] ch = "E" -> "e" [] ch = "C" -> "c"
      [] ch = "D" -> "d" [] OTHER -> ch

\* str.lower()
Lower(s) == [i \in 1..Len(s) |-> LowerChar(s[i])]

\* s.split(sep)[0]: the part before the first sep
BeforeFirst(s, sep) ==
    IF \E i \in 1..Len(s) : s[i] = sep
    THEN SubSeq(s, 1, (CHOOSE i \in 1..Len(s) :
                          s[i] = sep /\ \A j \in 1..(i - 1) : s[j] # sep) - 1)
    ELSE s

\* "".join(filter(str.isdigit, s))
OnlyDigits(s) == SelectSeq(s, LAMBDA ch : ch \in Digits)

\* s.replace(',', ' ')
CommaToSpace(s) == [i \in 1..Len(s) |-> IF s[i] = "," THEN " " ELSE s[i]]

\* s.split(): the maximal runs of non-blank characters
RECURSIVE SplitWs(_, _, _)
SplitWs(s, cur, acc) ==
    IF Len(s) = 0 THEN (IF Len(cur) = 0 THEN acc ELSE Append(acc, cur))
    ELSE IF Head(s) = " "
         THEN SplitWs(Tail(s), <<>>, IF Len(cur) = 0 THEN acc ELSE Append(acc, cur))
         ELSE SplitWs(Tail(s), Append(cur, Head(s)), acc)

RECURSIVE SumInts(_)
SumInts(parts) ==
    IF Len(parts) = 0 THEN 0 ELSE ToInt(Head(parts)) + SumInts(Tail(parts))

Sec == <<"s", "e", "c">>

parse_actual(s) ==
    IF Contains(Lower(s), Sec)
    THEN LET d == OnlyDigits(BeforeFirst(s, "-"))
         IN  IF Len(d) = 0 THEN None          \* int("") raises ValueError
             ELSE Some(ToInt(d))
    ELSE Some(SumInts(SelectSeq(SplitWs(CommaToSpace(s), <<>>, <<>>), IsDigitStr)))

-----------------------------------------------------------------------------
(* Headers and grids *)

Workout == <<"W", "o", "r", "k", "o", "u", "t">>
Actual == <<"A", "c", "t", "u", "a", "l">>

\* "Workout" in header and "Actual" in header
IsWorkoutActual(header) == Contains(header, Workout) /\ Contains(header, Actual)

\* [i for i, header in enumerate(headers) if ...], 0-based, ascending
WorkoutColIndices(headers) ==
    SelectSeq([i \in 1..Len(headers) |-> i - 1],
              LAMBDA i : IsWorkoutActual(headers[i + 1]))

\* data[2:]
ExerciseRows(data) == SubSeq(data, 3, Len(data))

\* row and row[0]
HasName(row) == Len(row) > 0 /\ row[1] # <<>>

\* the number of leading rows with a name: the loops that break at the first
\* row without one
BlockLen(rows) ==
    IF \E i \in 1..Len(rows) : ~HasName(rows[i])
    THEN (CHOOSE i \in 1..Len(rows) :
             ~HasName(rows[i]) /\ \A j \in 1..(i - 1) : HasName(rows[j])) - 1
    ELSE Len(rows)


-----------------------------------------------------------------------------
(* find_next_workout_and_exercises *)

\* the row offset forgets one of the two header rows
ExerciseOffByOne(row, i, col_index) ==
    [name |-> row[1], sets_goal |-> row[2], reps_goal |-> row[3],
     rest |-> row[4], gspread_row |-> i + 2, gspread_col |-> col_index + 1]

Exercise(row, i, col_index) ==
    [name |-> row[1], sets_goal |-> row[2], reps_goal |-> row[3],
     rest |-> row[4], gspread_row |-> i + 3, gspread_col |-> col_index + 1]

\* the inner loop over the rows of the block; i is 0-based
ExercisesToDo(exercise_rows, col_index) ==
    LET n == BlockLen(exercise_rows)
        empties == SelectSeq([i \in 1..n |-> i - 1],
                             LAMBDA i : exercise_rows[i + 1][col_index + 1] = <<>>)
    IN  [k \in 1..Len(empties) |->
            Exercise(exercise_rows[empties[k] + 1], empties[k], col_index)]

\* row[col_index] or row[1..3] out of range somewhere in that loop
ToDoRaises(exercise_rows, col_index) ==
    \E i \in 1..BlockLen(exercise_rows) :
        \/ col_index >= Len(exercise_rows[i])
        \/ exercise_rows[i][col_index + 1] = <<>> /\ Len(exercise_rows[i]) < 4

Continue == [kind |-> "continue"]
Raise(e) == [kind |-> "raise", exc |-> e]

\* the loop over workout_col_indices, from its j-th element
RECURSIVE ScanCols(_, _, _, _, _, _)
ScanCols(title, headers, exercise_rows, last_exercise_row_index, cols, j) ==
    IF j > Len(cols) THEN Continue
    ELSE LET col_index == cols[j]
             last_row == exercise_rows[last_exercise_row_index + 1]
         IN  IF col_index >= Len(last_row) THEN Raise("IndexError")
             ELSE IF last_row[col_index + 1] # <<>>
                  THEN ScanCols(title, headers, exercise_rows,
                                last_exercise_row_index, cols, j + 1)
             ELSE IF ToDoRaises(exercise_rows, col_index) THEN Raise("IndexError")
             ELSE LET exercises_to_do == ExercisesToDo(exercise_rows, col_index)
                  IN  IF exercises_to_do # <<>>
                      THEN [kind |-> "return",
                            sheet_title |-> Some(title),
                            exercises |-> exercises_to_do,
                            day_title |-> Some(headers[col_index + 1])]
                      ELSE ScanCols(title, headers, exercise_rows,
                                    last_exercise_row_index, cols, j + 1)

\* one iteration of the loop over the sheets
ScanSheet(sheet) ==
    IF Len(sheet.data) < 3 THEN Continue
    ELSE LET headers == sheet.data[2]
             exercise_rows == ExerciseRows(sheet.data)
             workout_col_indices == WorkoutColIndices(headers)
             last_exercise_row_index == BlockLen(exercise_rows) - 1
         IN  IF workout_col_indices = <<>> THEN Continue
             ELSE IF last_exercise_row_index = -1 THEN Continue
             ELSE ScanCols(sheet.title, headers, exercise_rows,
                           last_exercise_row_index, workout_col_indices, 1)

NothingToDo ==
    [exc |-> "", sheet_title |-> None, exercises |-> <<>>, day_title |-> None]

\* the final return indented into the loop over the sheets
RECURSIVE FindNextFromEarlyReturn(_, _)
FindNextFromEarlyReturn(sheets, k) ==
    IF k > Len(sheets) THEN NothingToDo
    ELSE LET r == ScanSheet(sheets[k])
         IN  CASE r.kind = "continue" /\ Len(sheets[k].data) >= 3
                    /\ WorkoutColIndices(sheets[k].data[2]) # <<>>
                    /\ BlockLen(ExerciseRows(sheets[k].data)) > 0 -> NothingToDo
               [] r.kind = "continue" -> FindNextFromEarlyReturn(sheets, k + 1)
               [] r.kind = "raise" ->
                    [exc |-> r.exc, sheet_title |-> None, exercises |-> <<>>,
                     day_title |-> None]
               [] r.kind = "return" ->
                    [exc |-> "", sheet_title |-> r.sheet_title,
                     exercises |-> r.exercises, day_title |-> r.day_title]

RECURSIVE FindNextFrom(_, _)
FindNextFrom(sheets, k) ==
    IF k > Len(sheets) THEN NothingToDo
    ELSE LET r == ScanSheet(sheets[k])
         IN  CASE r.kind = "continue" -> FindNextFrom(sheets, k + 1)
               [] r.kind = "raise" ->
                    [exc |-> r.exc, sheet_title |-> None, exercises |-> <<>>,
                     day_title |-> None]
               [] r.kind = "return" ->
                    [exc |-> "", sheet_title |-> r.sheet_title,
                     exercises |-> r.exercises, day_title |-> r.day_title]

find_next_workout_and_exercises(sheets) == FindNextFrom(sheets, 1)

-----------------------------------------------------------------------------
(* calculate_overall_completion *)

\* the sheets that reach the counting code
Counts(sheet) ==
    /\ Len(sheet.data) >= 3
    /\ WorkoutColIndices(sheet.data[2]) # <<>>
    /\ BlockLen(ExerciseRows(sheet.data)) # 0

\* the product with the number of workout-actual columns left out
SheetSlotsRowsOnly(sheet) == BlockLen(ExerciseRows(sheet.data))

SheetSlots(sheet) ==
    BlockLen(ExerciseRows(sheet.data)) * Len(WorkoutColIndices(sheet.data[2]))

\* exercise_rows[i][col_idx] out of range
SlotRaises(sheet) ==
    LET rows == ExerciseRows(sheet.data)
        cols == WorkoutColIndices(sheet.data[2])
    IN  \E i \in 1..BlockLen(rows), j \in 1..Len(cols) : cols[j] >= Len(rows[i])

\* the test of the cell negated: the empty cells are counted
SheetFilledCountsEmpty(sheet) ==
    LET rows == ExerciseRows(sheet.data)
        cols == WorkoutColIndices(sheet.data[2])
    IN  Cardinality({<<i, j>> \in (1..BlockLen(rows)) \X (1..Len(cols)) :
                        rows[i][cols[j] + 1] = <<>>})

SheetFilled(sheet) ==
    LET rows == ExerciseRows(sheet.data)
        cols == WorkoutColIndices(sheet.data[2])
    IN  Cardinality({<<i, j>> \in (1..BlockLen(rows)) \X (1..Len(cols)) :
                        rows[i][cols[j] + 1] # <<>>})

RECURSIVE CountFrom(_, _, _, _)
CountFrom(sheets, k, total_slots, filled_slots) ==
    IF k > Len(sheets) THEN [exc |-> "", total |-> total_slots, filled |-> filled_slots]
    ELSE IF ~Counts(sheets[k]) THEN CountFrom(sheets, k + 1, total_slots, filled_slots)
    ELSE IF SlotRaises(sheets[k])
         THEN [exc |-> "IndexError", total |-> 0, filled |-> 0]
    ELSE CountFrom(sheets, k + 1, total_slots + SheetSlots(sheets[k]),
                   filled_slots + SheetFilled(sheets[k]))

\* (filled_slots / total_slots) * 100 as the fraction num / den; 0.0 is 0 / 1
Percentage(total_slots, filled_slots) ==
    IF total_slots = 0 THEN [num |-> 0, den |-> 1]
    ELSE [num |-> filled_slots * 100, den |-> total_slots]

calculate_overall_completion(sheets) ==
    LET c == CountFrom(sheets, 1, 0, 0)
    IN  IF c.exc # "" THEN [exc |-> c.exc, total_slots |-> 0, filled_slots |-> 0,
                            percentage |-> Percentage(0, 0)]
        ELSE IF c.total = 0
             THEN [exc |-> "", total_slots |-> 0, filled_slots |-> 0,
                   percentage |-> Percentage(0, 0)]
        ELSE [exc |-> "", total_slots |-> c.total, filled_slots |-> c.filled,
              percentage |-> Percentage(c.total, c.filled)]

-----------------------------------------------------------------------------
(* load_and_process_history *)

\* the loop over workout_cols for one row, from its j-th column
RECURSIVE HistCols(_, _, _, _, _, _, _)
HistCols(title, row, cols, headers, workout_counter, j, acc) ==
    IF j > Len(cols) THEN [exc |-> "", recs |-> acc]
    ELSE LET col_idx == cols[j]
             day_title == headers[col_idx + 1]
         IN  IF col_idx >= Len(row) THEN [exc |-> "IndexError", recs |-> acc]
             ELSE IF row[col_idx + 1] = <<>>
                  THEN HistCols(title, row, cols, headers, workout_counter,
                                j + 1, acc)
             ELSE IF Len(day_title) < 9 THEN [exc |-> "IndexError", recs |-> acc]
             ELSE IF day_title[9] \notin Digits THEN [exc |-> "ValueError", recs |-> acc]
             ELSE HistCols(title, row, cols, headers, workout_counter, j + 1,
                           Append(acc,
                                  [Sheet |-> title,
                                   Day |-> day_title,
                                   Exercise |-> row[1],
                                   Actual_Raw |-> row[col_idx + 1],
                                   Workout_Order |->
                                       workout_counter + DigitVal(day_title[9])]))

\* the loop over exercise_rows, from its i-th row: rows without a name are
\* passed over, the scan does not stop at them
RECURSIVE HistRows(_, _, _, _, _, _, _)
HistRows(title, rows, cols, headers, workout_counter, i, acc) ==
    IF i > Len(rows) THEN [exc |-> "", recs |-> acc]
    ELSE IF Len(rows[i]) = 0 THEN [exc |-> "IndexError", recs |-> acc]
    ELSE IF rows[i][1] = <<>>
         THEN HistRows(title, rows, cols, headers, workout_counter, i + 1, acc)
    ELSE LET r == HistCols(title, rows[i], cols, headers, workout_counter, 1, acc)
         IN  IF r.exc # "" THEN r
             ELSE HistRows(title, rows, cols, headers, workout_counter,
                           i + 1, r.recs)

\* the counter is not advanced from sheet to sheet
NextCounterStuck(workout_counter, cols) == workout_counter

\* workout_counter += len(workout_cols)
NextCounter(workout_counter, cols) == workout_counter + Len(cols)

RECURSIVE HistSheets(_, _, _, _)
HistSheets(sheets, k, workout_counter, acc) ==
    IF k > Len(sheets) THEN [exc |-> "", recs |-> acc]
    ELSE IF Len(sheets[k].data) < 3 THEN HistSheets(sheets, k + 1, workout_counter, acc)
    ELSE LET headers == sheets[k].data[2]
             cols == WorkoutColIndices(headers)
         IN  IF cols = <<>> THEN HistSheets(sheets, k + 1, workout_counter, acc)
             ELSE LET r == HistRows(sheets[k].title, ExerciseRows(sheets[k].data),
                                    cols, headers, workout_counter, 1, acc)
                  IN  IF r.exc # "" THEN r
                      ELSE HistSheets(sheets, k + 1,
                                      NextCounter(workout_counter, cols), r.recs)

\* df.sort_values(by="Workout_Order"): rows with equal keys keep their order
RECURSIVE InsertByOrder(_, _)
InsertByOrder(sorted, rec) ==
    IF sorted = <<>> THEN <<rec>>
    ELSE IF sorted[Len(sorted)].Workout_Order <= rec.Workout_Order
         THEN Append(sorted, rec)
    ELSE Append(InsertByOrder(SubSeq(sorted, 1, Len(sorted) - 1), rec),
                sorted[Len(sorted)])

RECURSIVE SortByOrder(_)
SortByOrder(recs) ==
    IF recs = <<>> THEN <<>>
    ELSE InsertByOrder(SortByOrder(SubSeq(recs, 1, Len(recs) - 1)), recs[Len(recs)])

\* df["Metric (Total Volume/Time)"] = df["Actual_Raw"].apply(parse_actual)
WithMetric(rec) ==
    [Sheet |-> rec.Sheet, Day |-> rec.Day, Exercise |-> rec.Exercise,
     Actual_Raw |-> rec.Actual_Raw, Workout_Order |-> rec.Workout_Order,
     Metric |-> parse_actual(rec.Actual_Raw)]

load_and_process_history(sheets) ==
    LET h == HistSheets(sheets, 1, 0, <<>>)
    IN  IF h.exc # "" THEN [exc |-> h.exc, rows |-> <<>>]
        ELSE [exc |-> "",
              rows |-> SortByOrder([i \in 1..Len(h.recs) |-> WithMetric(h.recs[i])])]

-----------------------------------------------------------------------------
(* The sheets the derivations are run on *)

MaxRows == 2

Empty == <<>>
ExerciseName == <<"A">>
Result == <<"8">>
Rest == <<"6", "0", " ", "s", "e", "c">>

HExercise == <<"E", "x", "e", "r", "c", "i", "s", "e">>
HSets == <<"S", "e", "t", "s">>
HReps == <<"R", "e", "p", "s">>
HRest == <<"R", "e", "s", "t">>
HPlan(d) == <<"W", "o", "r", "k", "o", "u", "t", " ", d, " ", "(", "P", "l", "a", "n", ")">>
HActual(d) == <<"W", "o", "r", "k", "o", "u", "t", " ", d, " ", "(", "A", "c", "t", "u", "a", "l", ")">>

\* a sheet of the plan: per day a plan column and an actual column
TitleRow == <<<<"P", "l", "a", "n">>, Empty, Empty, Empty, Empty, Empty, Empty, Empty>>
HeaderRow(h1, h2) == <<HExercise, HSets, HReps, HRest, HPlan("1"), h1, HPlan("2"), h2>>
DataRow(name, r1, r2) == <<name, <<"3">>, <<"8">>, Rest, <<"8">>, r1, <<"8">>, r2>>

DataRows == {DataRow(n, r1, r2) : n \in {Empty, ExerciseName},
                                  r1 \in {Empty, Result}, r2 \in {Empty, Result}}

Sheet(title, headers, rows) == [title |-> title, data |-> <<TitleRow, headers>> \o rows]

\* a sheet with a header row only, and a sheet with no workout-actual column
ShortSheet(title) == Sheet(title, HeaderRow(HActual("1"), HActual("2")), <<>>)
PlanOnlySheet(title) ==
    Sheet(title, HeaderRow(HPlan("3"), HPlan("4")),
          <<DataRow(ExerciseName, Empty, Result)>>)

PlanSheets(title) ==
    {Sheet(title, HeaderRow(HActual("1"), HActual("2")), rows) :
        rows \in [1..MaxRows -> DataRows]}
    \cup {ShortSheet(title), PlanOnlySheet(title)}

\* the testable property's sheet: 3 exercises, day 1 done, day 2 begun
ExampleSheet ==
    Sheet("Month 1", HeaderRow(HActual("1"), HActual("2")),
          <<DataRow(ExerciseName, Result, Result),
            DataRow(ExerciseName, Result, Empty),
            DataRow(ExerciseName, Result, Empty)>>)

ResolveInputs ==
    {<<s1, s2>> : s1 \in PlanSheets("Month 1"), s2 \in PlanSheets("Month 2")}
    \cup {<<ExampleSheet>>}

NotRun == [exc |-> "not run"]

-----------------------------------------------------------------------------
(* The script's calls *)

CallFindNext ==
    /\ pc = "loaded"
    /\ next_workout' = find_next_workout_and_exercises(all_data)
    /\ pc' = "resolved"
    /\ lastOp' = "find_next"
    /\ UNCHANGED <<all_data, completion, df_history, value_str, metric>>
    /\ UNCHANGED appVars

CallCompletion ==
    /\ pc = "loaded"
    /\ completion' = calculate_overall_completion(all_data)
    /\ pc' = "counted"
    /\ lastOp' = "completion"
    /\ UNCHANGED <<all_data, next_workout, df_history, value_str, metric>>
    /\ UNCHANGED appVars

CallHistory ==
    /\ pc = "loaded"
    /\ df_history' = load_and_process_history(all_data)
    /\ pc' = "extracted"
    /\ lastOp' = "history"
    /\ UNCHANGED <<all_data, next_workout, completion, value_str, metric>>
    /\ UNCHANGED appVars

CallParse ==
    /\ pc = "loaded"
    /\ metric' = parse_actual(value_str)
    /\ pc' = "parsed"
    /\ lastOp' = "parse"
    /\ UNCHANGED <<all_data, next_workout, completion, df_history, value_str>>
    /\ UNCHANGED appVars

InitResolve ==
    /\ all_data \in ResolveInputs
    /\ next_workout = NotRun
    /\ completion = NotRun
    /\ df_history = NotRun
    /\ pc = "loaded"
    /\ lastOp = "load"
    /\ AppIdle
    /\ value_str = <<>>
    /\ metric = None

NextResolve == CallFindNext

SpecResolve == InitResolve /\ [][NextResolve]_vars

-----------------------------------------------------------------------------
(* Schedule resolver: C1, C2, C3 *)

\* the last row of the exercise block of a sheet with at least one exercise
LastBlockRow(sheet) ==
    ExerciseRows(sheet.data)[BlockLen(ExerciseRows(sheet.data))]

HasBlock(sheet) == Len(sheet.data) >= 3 /\ BlockLen(ExerciseRows(sheet.data)) >= 1

\* 0-based workout-actual columns whose cell in the last block row is empty
OpenCols(sheet) ==
    {c \in 0..(Len(sheet.data[2]) - 1) :
        /\ IsWorkoutActual(sheet.data[2][c + 1])
        /\ LastBlockRow(sheet)[c + 1] = <<>>}

OpenSheets(sheets) == {k \in 1..Len(sheets) : HasBlock(sheets[k]) /\ OpenCols(sheets[k]) # {}}

Min(S) == CHOOSE x \in S : \A y \in S : x <= y

\* 0-based block rows of the sheet whose cell in column c is empty
EmptyRows(sheet, c) ==
    {i \in 0..(BlockLen(ExerciseRows(sheet.data)) - 1) :
        ExerciseRows(sheet.data)[i + 1][c + 1] = <<>>}

IsFirstOpenWorkout(sheets, r) ==
    LET k == Min(OpenSheets(sheets))
        c == Min(OpenCols(sheets[k]))
        todo == r.exercises
    IN  /\ r.sheet_title = Some(sheets[k].title)
        /\ r.day_title = Some(sheets[k].data[2][c + 1])
        /\ Len(todo) = Cardinality(EmptyRows(sheets[k], c))
        /\ \A j \in 1..Len(todo) :
              /\ todo[j].gspread_row - 3 \in EmptyRows(sheets[k], c)
              /\ todo[j].gspread_col = c + 1
              /\ todo[j].name = ExerciseRows(sheets[k].data)[todo[j].gspread_row - 2][1]
        /\ \A j \in 1..(Len(todo) - 1) : todo[j].gspread_row < todo[j + 1].gspread_row

\* C1: find_next_workout_and_exercises returns the first sheet, and in it the
\* first workout-actual column, whose cell in the last row of the exercise
\* block is empty; the to-do list is exactly the block rows i with an empty
\* cell in that column, top to bottom, with gspread_row = i + 3 and
\* gspread_col = column index + 1, and the day label is the column's header.
\* On the example sheet (3 exercises, day 1 filled, day 2 filled in row 1
\* only) the second workout-actual column is chosen with rows 2 and 3 to do.
C1_FirstOpenWorkout ==
    pc = "resolved" =>
        /\ OpenSheets(all_data) # {} => IsFirstOpenWorkout(all_data, next_workout)
        /\ all_data = <<ExampleSheet>> =>
              /\ next_workout.day_title = Some(HActual("2"))
              /\ Len(next_workout.exercises) = 2
              /\ next_workout.exercises[1].gspread_row = 4
              /\ next_workout.exercises[2].gspread_row = 5

C1_Witness ==
    /\ pc = "resolved"
    /\ all_data = <<ExampleSheet>>
    /\ next_workout.sheet_title = Some("Month 1")
    /\ Len(next_workout.exercises) = 2

\* C2: when find_next_workout_and_exercises returns (None, [], None), the
\* plan is complete: calculate_overall_completion on the same snapshot set
\* reports filled_slots = total_slots.
C2_NothingToDoMeansComplete ==
    (pc = "resolved" /\ next_workout = NothingToDo)
        => LET c == calculate_overall_completion(all_data)
           IN  c.filled_slots = c.total_slots

\* every block row has a value in every workout-actual column
FullyFilled(sheet) ==
    /\ Len(sheet.data) >= 3
    /\ \A i \in 1..BlockLen(ExerciseRows(sheet.data)), c \in 1..Len(sheet.data[2]) :
          IsWorkoutActual(sheet.data[2][c]) => ExerciseRows(sheet.data)[i][c] # <<>>

NonQualifying(sheet) ==
    \/ Len(sheet.data) < 3
    \/ \A c \in 1..Len(sheet.data[2]) : ~IsWorkoutActual(sheet.data[2][c])
    \/ BlockLen(ExerciseRows(sheet.data)) = 0

RemoveAt(sheets, k) == SubSeq(sheets, 1, k - 1) \o SubSeq(sheets, k + 1, Len(sheets))

\* C3: a sheet whose block rows are filled in every workout-actual column is
\* skipped: the result equals the result on the mapping without that sheet;
\* and if every sheet is filled or non-qualifying the result is
\* (None, [], None).
C3_FilledSheetSkipped ==
    pc = "resolved" =>
        /\ \A k \in 1..Len(all_data) :
              FullyFilled(all_data[k]) =>
                  next_workout = find_next_workout_and_exercises(RemoveAt(all_data, k))
        /\ (\A k \in 1..Len(all_data) :
                FullyFilled(all_data[k]) \/ NonQualifying(all_data[k]))
              => next_workout = NothingToDo

C3_Witness ==
    /\ pc = "resolved"
    /\ Len(all_data) = 2
    /\ FullyFilled(all_data[1]) /\ ~NonQualifying(all_data[1])
    /\ next_workout.sheet_title = Some("Month 2")
    /\ Len(next_workout.exercises) = 2

-----------------------------------------------------------------------------
(* Completion calculator: C4, C5 *)

\* the first sheet: any names and results, the day headers possibly not yet
\* written; the second: one exercise
CompletionInputs ==
    {<<Sheet("Month 1", HeaderRow(h1, h2), rows),
       Sheet("Month 2", HeaderRow(HActual("1"), HActual("2")),
             <<DataRow(ExerciseName, r1, r2)>>)>> :
        h1 \in {Empty, HActual("1")}, h2 \in {Empty, HActual("2")},
        rows \in [1..MaxRows -> DataRows],
        r1 \in {Empty, Result}, r2 \in {Empty, Result}}

\* the empty cells of a sheet; of the title row, which no derivation reads,
\* only the second
EmptyCells(sheet) ==
    {rc \in (1..Len(sheet.data)) \X (1..Len(TitleRow)) :
        /\ sheet.data[rc[1]][rc[2]] = <<>>
        /\ rc[1] = 1 => rc[2] = 2}

\* what is typed into an empty cell
TypedValue(r, c) ==
    IF r = 2 THEN (IF c = 6 THEN HActual("1") ELSE HActual("2"))
    ELSE IF r >= 3 /\ c = 1 THEN ExerciseName
    ELSE Result

FillKind(r, c) ==
    IF r = 2 THEN "fill_header"
    ELSE IF r >= 3 /\ c = 1 THEN "fill_name"
    ELSE "fill_other"

Filled(sheets, k, r, c) ==
    [sheets EXCEPT ![k].data[r][c] = TypedValue(r, c)]

\* a cell of the spreadsheet has been filled; the progress tab is rendered
\* again on the reloaded snapshot set
FillCell ==
    /\ pc = "counted"
    /\ \E k \in 1..Len(all_data) : \E rc \in EmptyCells(all_data[k]) :
          /\ all_data' = Filled(all_data, k, rc[1], rc[2])
          /\ lastOp' = FillKind(rc[1], rc[2])
    /\ completion' = calculate_overall_completion(all_data')
    /\ pc' = "counted"
    /\ UNCHANGED <<next_workout, df_history, value_str, metric>>
    /\ UNCHANGED appVars

InitCompletion ==
    /\ all_data \in CompletionInputs
    /\ next_workout = NotRun
    /\ completion = NotRun
    /\ df_history = NotRun
    /\ pc = "loaded"
    /\ lastOp = "load"
    /\ AppIdle
    /\ value_str = <<>>
    /\ metric = None

NextCompletion == CallCompletion \/ FillCell

SpecCompletion == InitCompletion /\ [][NextCompletion]_vars

\* the slots of the plan: (sheet, block row, workout-actual column)
Slots(sheets) ==
    {s \in (1..Len(sheets)) \X (1..(MaxRows + 1)) \X (1..Len(TitleRow)) :
        /\ Len(sheets[s[1]].data) >= 3
        /\ s[2] <= BlockLen(ExerciseRows(sheets[s[1]].data))
        /\ IsWorkoutActual(sheets[s[1]].data[2][s[3]])}

FilledSlotSet(sheets) ==
    {s \in Slots(sheets) : ExerciseRows(sheets[s[1]].data)[s[2]][s[3]] # <<>>}

PercentageNotLower ==
    completion'.percentage.num * completion.percentage.den
        >= completion.percentage.num * completion'.percentage.den

\* C5 as stated: filling any empty cell, all else equal, does not lower the
\* percentage.
C5_AnyFillMonotone ==
    [][(pc = "counted" /\ lastOp' \in {"fill_header", "fill_name", "fill_other"})
          => PercentageNotLower]_vars

\* C5 amended: filling an empty cell that is neither a header-row cell nor a
\* name cell (first column of a data row) does not lower the percentage.
C5_ResultFillMonotone ==
    [][(pc = "counted" /\ lastOp' = "fill_other") => PercentageNotLower]_vars

C5_Witness ==
    /\ pc = "counted"
    /\ lastOp = "fill_other"
    /\ completion.filled_slots = 3
    /\ completion.total_slots = 6

-----------------------------------------------------------------------------
(* parse_actual: C6 *)

MaxLen == 3

Alphabet == {"1", "2", ",", " ", "-", "s", "e", "c", "S", "D"}

\* the non-empty strings over the alphabet up to MaxLen; the history parses
\* non-empty cells only
ShortStrings == UNION {[1..n -> Alphabet] : n \in 1..MaxLen}

Str_10_9_8 == <<"1", "0", ",", " ", "9", ",", " ", "8">>
Str_45_60_sec == <<"4", "5", "-", "6", "0", " ", "s", "e", "c">>
Str_Done == <<"D", "o", "n", "e">>

ParseInputs ==
    ShortStrings \cup {Str_10_9_8, Str_45_60_sec, Str_Done,
                       <<"1", "s", "e", "c">>, <<"1", "2", " ", "S", "e", "c">>}

InitParse ==
    /\ value_str \in ParseInputs
    /\ metric = None
    /\ all_data = <<>>
    /\ next_workout = NotRun
    /\ completion = NotRun
    /\ df_history = NotRun
    /\ pc = "loaded"
    /\ lastOp = "load"
    /\ AppIdle

NextParse == CallParse

SpecParse == InitParse /\ [][NextParse]_vars

Separators == {" ", ","}

\* some whitespace/comma-separated token of s is purely digits
HasDigitToken(s) ==
    \E i \in 1..Len(s) : \E j \in i..Len(s) :
        /\ \A k \in i..j : s[k] \in Digits
        /\ i = 1 \/ s[i - 1] \in Separators
        /\ j = Len(s) \/ s[j + 1] \in Separators

\* s, lowercased, contains "sec"
MentionsSec(s) ==
    \E i \in 1..(Len(s) - 2) :
        /\ s[i] \in {"s", "S"} /\ s[i + 1] \in {"e", "E"} /\ s[i + 2] \in {"c", "C"}

\* a digit occurs before the first "-" of s
DigitBeforeDash(s) ==
    \E i \in 1..Len(s) : s[i] \in Digits /\ \A j \in 1..(i - 1) : s[j] # "-"

\* C6: the metric is absent (None), not zero, when the raw result has no
\* 'sec' and no purely-digit token, and when it has 'sec' and no digit
\* before the first '-'; "10, 9, 8" gives 27 and "45-60 sec" gives 45.
C6_AbsentWhenNoDigits ==
    pc = "parsed" =>
        /\ (~MentionsSec(value_str) /\ ~HasDigitToken(value_str)) => metric = None
        /\ (MentionsSec(value_str) /\ ~DigitBeforeDash(value_str)) => metric = None
        /\ value_str = Str_10_9_8 => metric = Some(27)
        /\ value_str = Str_45_60_sec => metric = Some(45)

-----------------------------------------------------------------------------
(* History extractor: C7, C8 *)

HBad == <<"W", "o", "r", "k", "o", "u", "t", " ", "A", " ", "(", "A", "c", "t", "u", "a", "l", ")">>

DayHeaders == {HActual("1"), HActual("2"), HActual("3"), HPlan("1"), HBad}

BlankNameRow == DataRow(Empty, Empty, Empty)

\* a row cut after the name, and a row with no cell at all
ShortRow == <<ExerciseName>>
NoCellRow == <<>>

HistoryRowLists ==
    {<<DataRow(ExerciseName, r1, r2)>> : r1 \in {Empty, Result}, r2 \in {Empty, Result}}
    \cup {<<DataRow(ExerciseName, Result, Result), BlankNameRow,
            DataRow(ExerciseName, Result, Empty)>>,
          <<ShortRow>>, <<NoCellRow>>}

HistorySheets(title) ==
    {Sheet(title, HeaderRow(h1, h2), rows) :
        h1 \in DayHeaders, h2 \in DayHeaders, rows \in HistoryRowLists}
    \cup {ShortSheet(title)}

HistoryInputs ==
    {<<s1, s2>> : s1 \in HistorySheets("Month 1"), s2 \in HistorySheets("Month 2")}

InitHistory ==
    /\ all_data \in HistoryInputs
    /\ next_workout = NotRun
    /\ completion = NotRun
    /\ df_history = NotRun
    /\ pc = "loaded"
    /\ lastOp = "load"
    /\ AppIdle
    /\ value_str = <<>>
    /\ metric = None

NextHistory == CallFindNext \/ CallCompletion \/ CallHistory

SpecHistory == InitHistory /\ [][NextHistory]_vars

SheetPos(sheets, title) == CHOOSE k \in 1..Len(sheets) : sheets[k].title = title

\* the headers of the workout-actual columns of a sheet, in header order
ActualHeaders(sheet) ==
    IF Len(sheet.data) < 2 THEN <<>>
    ELSE SelectSeq(sheet.data[2], IsWorkoutActual)

\* every workout-actual header has a digit at offset 8
DigitAtOffset8(sheets) ==
    \A k \in 1..Len(sheets) : \A j \in 1..Len(ActualHeaders(sheets[k])) :
        ActualHeaders(sheets[k])[j][9] \in Digits

\* the j-th workout-actual header of every sheet carries the digit j
NumberedInHeaderOrder(sheets) ==
    \A k \in 1..Len(sheets) : \A j \in 1..Len(ActualHeaders(sheets[k])) :
        /\ ActualHeaders(sheets[k])[j][9] \in Digits
        /\ DigitVal(ActualHeaders(sheets[k])[j][9]) = j

\* the ordinals strictly increase over the workout-actual columns of a
\* sheet in header order and do not decrease from a sheet to a later one
OrdinalsOrdered(sheets, rows) ==
    /\ \A k \in 1..Len(sheets) :
          \A j1 \in 1..Len(ActualHeaders(sheets[k])) :
          \A j2 \in (j1 + 1)..Len(ActualHeaders(sheets[k])) :
          \A a \in 1..Len(rows) : \A b \in 1..Len(rows) :
              (/\ rows[a].Sheet = sheets[k].title
               /\ rows[b].Sheet = sheets[k].title
               /\ rows[a].Day = ActualHeaders(sheets[k])[j1]
               /\ rows[b].Day = ActualHeaders(sheets[k])[j2])
                  => rows[a].Workout_Order < rows[b].Workout_Order
    /\ \A a \in 1..Len(rows) : \A b \in 1..Len(rows) :
          SheetPos(sheets, rows[a].Sheet) < SheetPos(sheets, rows[b].Sheet)
              => rows[a].Workout_Order <= rows[b].Workout_Order

\* C7 as stated: whenever every workout-actual header has a digit at offset
\* 8, the ordinals are ordered within each sheet and across the sheets.
C7_OrdinalsOrderedAnyDigits ==
    (pc = "extracted" /\ df_history.exc = "" /\ DigitAtOffset8(all_data))
        => OrdinalsOrdered(all_data, df_history.rows)

\* C7 amended: when the workout-actual columns of every sheet are numbered
\* 1, 2, ... in header order, the ordinals strictly increase over the
\* columns of a sheet, do not decrease from a sheet to a later one, and the
\* returned rows are sorted by ordinal.
C7_OrdinalsOrderedWhenNumbered ==
    (pc = "extracted" /\ df_history.exc = "" /\ NumberedInHeaderOrder(all_data))
        => /\ OrdinalsOrdered(all_data, df_history.rows)
           /\ \A i \in 1..(Len(df_history.rows) - 1) :
                 df_history.rows[i].Workout_Order <= df_history.rows[i + 1].Workout_Order

C7_Witness ==
    /\ pc = "extracted"
    /\ df_history.exc = ""
    /\ NumberedInHeaderOrder(all_data)
    /\ Len(df_history.rows) = 4
    /\ df_history.rows[1].Sheet = "Month 1" /\ df_history.rows[1].Workout_Order = 1
    /\ df_history.rows[4].Sheet = "Month 2" /\ df_history.rows[4].Workout_Order = 4

\* C8: malformed header or row data never crashes a scan: each of the three
\* derivations returns a result.
C8_ScanNeverRaises ==
    /\ pc = "resolved" => next_workout.exc = ""
    /\ pc = "counted" => completion.exc = ""
    /\ pc = "extracted" => df_history.exc = ""

-----------------------------------------------------------------------------
(* The memoized functions: @st.cache_data(ttl=300) *)

TTL == 300
UnitsPerSecond == 2

\* an entry answers until ttl seconds after it was stored
Fresh(entry) == entry.present /\ now < entry.time + TTL * UnitsPerSecond

NotesSheet == [title |-> "Notes", data |-> <<<<<<"x">>>>>>]

\* sheet.title.startswith("Month")
StartsWithMonth(title) == title \in {"Month 1", "Month 2"}

\* the body of get_workout_data: the values of the Month worksheets
FetchAll(worksheets) == SelectSeq(worksheets, LAMBDA sh : StartsWithMonth(sh.title))

\* get_workout_data(_client, sheet_id): keyed on sheet_id alone, which never
\* changes
get_workout_data == IF Fresh(snapCache) THEN snapCache.value ELSE FetchAll(store)

SnapCacheAfter ==
    IF Fresh(snapCache) THEN snapCache
    ELSE [present |-> TRUE, time |-> now, value |-> FetchAll(store)]

\* the argument of the memoized load_and_process_history is named
\* _all_sheets_data: a parameter whose name begins with an underscore is left
\* out of the key, so one entry answers every call
cached_load_and_process_history(_all_sheets_data) ==
    IF Fresh(histCache) THEN histCache.value
    ELSE load_and_process_history(_all_sheets_data)

HistCacheAfter(_all_sheets_data) ==
    IF Fresh(histCache) THEN histCache
    ELSE [present |-> TRUE, time |-> now,
          value |-> load_and_process_history(_all_sheets_data)]

\* worksheet(sheet_title).update_cell(row, col, value)
UpdateCell(worksheets, title, row, col, value) ==
    [k \in 1..Len(worksheets) |->
        IF worksheets[k].title = title
        THEN [worksheets[k] EXCEPT !.data[row][col] = value]
        ELSE worksheets[k]]

-----------------------------------------------------------------------------
(* The progress tab, run after run: C9 *)

SmallTicks == 3

CacheHorizon == TTL * UnitsPerSecond + SmallTicks

CacheStore ==
    <<Sheet("Month 1", HeaderRow(HActual("1"), HActual("2")),
            <<DataRow(ExerciseName, Empty, Empty)>>),
      NotesSheet>>

\* the steps of the clock: one unit, at most SmallTicks in a row, or, between
\* two script runs, one unit less than the ttl
ClockSteps ==
    {d \in {1, TTL * UnitsPerSecond - 1} :
        /\ now + d <= CacheHorizon
        /\ d = 1 => now % (TTL * UnitsPerSecond - 1) < SmallTicks
        /\ d # 1 => pc = "idle"}

\* time passes, between script runs and between the statements of one
PassTime ==
    /\ \E d \in ClockSteps : now' = now + d
    /\ lastOp' = "tick"
    /\ UNCHANGED <<deriveVars, pc, parseVars, store, snapCache, histCache, sessionVars>>

\* a result typed into the form is saved: update_google_sheet
SaveResult ==
    /\ pc = "idle"
    /\ \E col \in {6, 8} :
          /\ store[1].data[3][col] = <<>>
          /\ store' = UpdateCell(store, "Month 1", 3, col, Result)
    /\ lastOp' = "update_cell"
    /\ UNCHANGED <<deriveVars, pc, parseVars, now, snapCache, histCache, sessionVars>>

\* render_history_tab, line 141
TabGetData ==
    /\ pc = "idle"
    /\ all_data' = get_workout_data
    /\ snapCache' = SnapCacheAfter
    /\ pc' = "have_data"
    /\ lastOp' = "get_workout_data"
    /\ UNCHANGED <<next_workout, completion, df_history, parseVars, now, store,
                   histCache, sessionVars>>

\* render_history_tab, line 144
TabCompletion ==
    /\ pc = "have_data"
    /\ completion' = calculate_overall_completion(all_data)
    /\ pc' = "tab_counted"
    /\ lastOp' = "completion"
    /\ UNCHANGED <<all_data, next_workout, df_history, parseVars, cacheVars, sessionVars>>

\* render_history_tab, line 156
TabHistory ==
    /\ pc = "tab_counted"
    /\ df_history' = cached_load_and_process_history(all_data)
    /\ histCache' = HistCacheAfter(all_data)
    /\ pc' = "rendered"
    /\ lastOp' = "history"
    /\ UNCHANGED <<all_data, next_workout, completion, parseVars, now, store,
                   snapCache, sessionVars>>

\* the script run ends; the next interaction starts another
EndRun ==
    /\ pc = "rendered"
    /\ pc' = "idle"
    /\ lastOp' = "end_run"
    /\ UNCHANGED <<deriveVars, parseVars, cacheVars, sessionVars>>

InitCache ==
    /\ all_data = <<>>
    /\ next_workout = NotRun
    /\ completion = NotRun
    /\ df_history = NotRun
    /\ pc = "idle"
    /\ lastOp = "load"
    /\ value_str = <<>>
    /\ metric = None
    /\ now = 0
    /\ store = CacheStore
    /\ snapCache = NoEntry
    /\ histCache = NoEntry
    /\ sheet_title = <<>>
    /\ exercises_today = <<>>
    /\ current_exercise_index = 0
    /\ current_view = "none"
    /\ rest_start_time = 0
    /\ rest_duration = 0
    /\ writes = <<>>

NextCache == PassTime \/ SaveResult \/ TabGetData \/ TabCompletion \/ TabHistory \/ EndRun

SpecCache == InitCache /\ [][NextCache]_vars

\* C9: the history is a pure function of the snapshot set passed in: at the
\* end of every rendering of the progress tab the history shown is the
\* extraction of that rendering's all_data, and it has as many records as
\* calculate_overall_completion counted filled slots (no row of the model's
\* spreadsheet follows a blank-name row).
C9_HistoryOfCurrentSnapshot ==
    pc = "rendered" =>
        /\ df_history = load_and_process_history(all_data)
        /\ Len(df_history.rows) = completion.filled_slots

-----------------------------------------------------------------------------
(* The session: workout -> rest -> done *)

SessionHorizon == 12

\* str.replace(sub, ""): every occurrence, left to right
RECURSIVE RemoveAll(_, _)
RemoveAll(s, sub) ==
    IF Len(s) < Len(sub) THEN s
    ELSE IF SubSeq(s, 1, Len(sub)) = sub
         THEN RemoveAll(SubSeq(s, Len(sub) + 1, Len(s)), sub)
    ELSE <<Head(s)>> \o RemoveAll(Tail(s), sub)

\* str.strip()
RECURSIVE Strip(_)
Strip(s) ==
    IF Len(s) = 0 THEN s
    ELSE IF Head(s) = " " THEN Strip(Tail(s))
    ELSE IF s[Len(s)] = " " THEN Strip(SubSeq(s, 1, Len(s) - 1))
    ELSE s

\* s.split('-')[1], for s with a '-'
AfterFirstDash(s) ==
    LET i == CHOOSE i \in 1..Len(s) : s[i] = "-" /\ \A j \in 1..(i - 1) : s[j] # "-"
    IN  BeforeFirst(SubSeq(s, i + 1, Len(s)), "-")

\* the seconds set when int() raises ValueError
FallbackRest == 5

\* render_workout_view, lines 352-359; int() allows blanks around the digits
RestDuration(rest) ==
    LET stripped == Strip(RemoveAll(Lower(rest), Sec))
        rest_time_str == IF \E i \in 1..Len(stripped) : stripped[i] = "-"
                         THEN AfterFirstDash(stripped) ELSE stripped
    IN  IF IsDigitStr(Strip(rest_time_str)) THEN ToInt(Strip(rest_time_str))
        ELSE FallbackRest

\* int(x) of the float x = n / UnitsPerSecond: the fraction is cut off
IntOfUnits(n) ==
    IF n >= 0 THEN n \div UnitsPerSecond ELSE -((-n) \div UnitsPerSecond)

\* render_rest_view, lines 376-377: remaining = int(duration - elapsed)
Remaining == IntOfUnits(rest_duration * UnitsPerSecond - (now - rest_start_time))

RestSpecs == {<<"1", " ", "s", "e", "c">>, <<"1", "-", "2", " ", "s", "e", "c">>, <<"x">>}

SessionRow(rest, r1, r2) == <<ExerciseName, <<"3">>, <<"8">>, rest, <<"8">>, r1, <<"8">>, r2>>

SessionStores ==
    {<<Sheet("Month 1", HeaderRow(HActual("1"), HActual("2")),
             <<SessionRow(rest1, r, Empty), SessionRow(rest2, Empty, Empty)>>),
       NotesSheet>> :
        rest1 \in RestSpecs, rest2 \in RestSpecs, r \in {Empty, Result}}

\* initialize_session: the first script run, and the run after the session
\* state was cleared
InitializeSession ==
    /\ pc = "start"
    /\ all_data' = get_workout_data
    /\ snapCache' = SnapCacheAfter
    /\ all_data' # <<>>
    /\ next_workout' = find_next_workout_and_exercises(all_data')
    /\ sheet_title' = next_workout'.sheet_title
    /\ exercises_today' = next_workout'.exercises
    /\ current_exercise_index' = 0
    /\ current_view' = "workout"
    /\ pc' = "ready"
    /\ lastOp' = "initialize_session"
    /\ UNCHANGED <<completion, df_history, parseVars, now, store, histCache,
                   rest_start_time, rest_duration, writes>>

\* <module>, line 450: neither a sheet nor an exercise means the plan is done
Dispatch(view) ==
    /\ pc = "ready"
    /\ sheet_title # None
    /\ exercises_today # <<>>
    /\ current_view = view

\* render_workout_view, lines 312-315
FinishWorkout ==
    /\ Dispatch("workout")
    /\ current_exercise_index >= Len(exercises_today)
    /\ current_view' = "done"
    /\ lastOp' = "finish"
    /\ UNCHANGED <<deriveVars, pc, parseVars, cacheVars, sheet_title, exercises_today,
                   current_exercise_index, rest_start_time, rest_duration, writes>>

\* render_workout_view, lines 340-343: the form submitted with no result
SubmitEmpty ==
    /\ Dispatch("workout")
    /\ current_exercise_index < Len(exercises_today)
    /\ lastOp' = "submit_empty"
    /\ UNCHANGED <<deriveVars, pc, parseVars, cacheVars, sessionVars>>

\* render_workout_view, lines 340-365, with update_google_sheet: update_cell
\* succeeds or raises, and the exception is caught and reported
SubmitResult ==
    /\ Dispatch("workout")
    /\ current_exercise_index < Len(exercises_today)
    /\ LET ex == exercises_today[current_exercise_index + 1]
       IN  /\ \E ok \in BOOLEAN :
                 /\ writes' = Append(writes,
                                     [sheet_title |-> sheet_title[1],
                                      row |-> ex.gspread_row, col |-> ex.gspread_col,
                                      value |-> Result, ok |-> ok])
                 /\ store' = IF ok
                             THEN UpdateCell(store, sheet_title[1], ex.gspread_row,
                                             ex.gspread_col, Result)
                             ELSE store
           /\ rest_duration' = RestDuration(ex.rest)
    /\ rest_start_time' = now
    /\ current_view' = "rest"
    /\ lastOp' = "submit"
    /\ UNCHANGED <<deriveVars, pc, parseVars, now, snapCache, histCache, sheet_title,
                   exercises_today, current_exercise_index>>

\* render_rest_view, lines 395-421: the button is there once remaining <= 0
RestNext ==
    /\ Dispatch("rest")
    /\ ~(Remaining > 0)
    /\ current_exercise_index' = current_exercise_index + 1
    /\ current_view' = "workout"
    /\ lastOp' = "next"
    /\ UNCHANGED <<deriveVars, pc, parseVars, cacheVars, sheet_title, exercises_today,
                   rest_start_time, rest_duration, writes>>

\* render_done_view, lines 432-435: the session state is deleted
StartNew ==
    /\ Dispatch("done")
    /\ sheet_title' = <<>>
    /\ exercises_today' = <<>>
    /\ current_exercise_index' = 0
    /\ current_view' = "none"
    /\ rest_start_time' = 0
    /\ rest_duration' = 0
    /\ writes' = <<>>
    /\ pc' = "start"
    /\ lastOp' = "start_new"
    /\ UNCHANGED <<deriveVars, parseVars, cacheVars>>

\* time.time() moves on by one unit
Tick ==
    /\ now < SessionHorizon
    /\ now' = now + 1
    /\ lastOp' = "tick"
    /\ UNCHANGED <<deriveVars, pc, parseVars, store, snapCache, histCache, sessionVars>>

InitSession ==
    /\ all_data = <<>>
    /\ next_workout = NotRun
    /\ completion = NotRun
    /\ df_history = NotRun
    /\ pc = "start"
    /\ lastOp = "load"
    /\ value_str = <<>>
    /\ metric = None
    /\ now = 0
    /\ store \in SessionStores
    /\ snapCache = NoEntry
    /\ histCache = NoEntry
    /\ sheet_title = <<>>
    /\ exercises_today = <<>>
    /\ current_exercise_index = 0
    /\ current_view = "none"
    /\ rest_start_time = 0
    /\ rest_duration = 0
    /\ writes = <<>>

NextSession ==
    \/ InitializeSession
    \/ FinishWorkout
    \/ SubmitEmpty
    \/ SubmitResult
    \/ RestNext
    \/ StartNew
    \/ Tick

SpecSession == InitSession /\ [][NextSession]_vars

\* the writes issued are those of the first exercises of the list, in order
WritesFollowList ==
    /\ Len(writes) = current_exercise_index + (IF current_view = "rest" THEN 1 ELSE 0)
    /\ \A k \in 1..Len(writes) :
          /\ k <= Len(exercises_today)
          /\ writes[k].sheet_title = sheet_title[1]
          /\ writes[k].row = exercises_today[k].gspread_row
          /\ writes[k].col = exercises_today[k].gspread_col
    /\ current_view = "done" =>
          /\ current_exercise_index = Len(exercises_today)
          /\ Len(writes) = Len(exercises_today)

\* within a session: an empty submission changes nothing; the index moves
\* only by one, only from the rest view, only once the rest time is over
SessionStep ==
    /\ lastOp' = "submit_empty" => UNCHANGED sessionVars
    /\ (pc = "ready" /\ pc' = "ready" /\ current_exercise_index' # current_exercise_index) =>
          /\ current_exercise_index' = current_exercise_index + 1
          /\ current_view = "rest"
          /\ lastOp' = "next"
          /\ now - rest_start_time >= rest_duration * UnitsPerSecond
    /\ (pc = "ready" /\ pc' = "ready" /\ Len(writes') > Len(writes)) =>
          /\ current_view' = "rest"
          /\ Len(writes') = Len(writes) + 1

\* C10: in a session the number of writes is current_exercise_index (plus one
\* in the rest view), the k-th write targets the k-th exercise of the list, an
\* empty submission writes nothing and changes nothing, the index moves only
\* by one and only by 'next' in the rest view after the rest time has
\* elapsed, a write that fails still leads to the rest view and is not
\* repeated, and 'done' is reached only with one write per exercise.
C10_SessionWrites ==
    [](pc = "ready" => WritesFollowList) /\ [][SessionStep]_vars

=============================================================================
